---- MODULE Spec2Model ----
(***************************************************************************)
(* Model of mesinyer/extension.py: the extension registry (_categories),   *)
(* the Category class, the interface check and the weakly held single      *)
(* instance.  Python values are records, so that None, classes, ids and    *)
(* instance references can be compared with one another.                   *)
(***************************************************************************)
EXTENDS Integers, Sequences, FiniteSets, TLC

VARIABLES
    _categories,  \* extension.py:265  'CategoryName' -> Category
    heap,         \* the instances constructed so far: TRUE while strongly held
    ret,          \* the last call made by the host, with its outcome
    callers       \* the get_and_instantiate calls in flight, step by step

vars == <<_categories, heap, ret, callers>>

\* ------------------------------------------------------------ bounds

\* Number of instances the host constructs in one run.
MaxInst == 2

\* ------------------------------------------------------------ Python values

None == [py |-> "None"]
True == [py |-> "True"]
False == [py |-> "False"]
\* An attribute that __init__ never assigned (line 145 skipped).
Unset == [py |-> "unset"]
NoExc == "none"

\* Attribute names are sequences of characters: startswith('_') reads the first.
foo == <<"f", "o", "o">>
bar == <<"b", "a", "r">>
_priv == <<"_", "p">>
__doc__ == <<"_", "_", "d", "o", "c", "_", "_">>
__len__ == <<"_", "_", "l", "e", "n", "_", "_">>

startswith(s, ch) == Len(s) > 0 /\ s[1] = ch

\* ------------------------------------------------------------ inputs

\* Interfaces: classes whose public attributes are the required methods.
IFoo == [iface |-> "IFoo", attrs |-> {foo, _priv, __doc__}]
IBar == [iface |-> "IBar", attrs |-> {bar, __doc__}]

\* Extension classes.  file is the module's file, nargs the number of
\* arguments __init__ takes, nonzero the truth value of an instance
\* (FALSE for a class whose __len__ returns 0 or whose __nonzero__ is false),
\* broken the attributes whose call on the class raises (an ordinary method,
\* unbound on the class, or one that fails), the other attributes being
\* callable on the class itself.
ClassA == [file |-> [stem |-> "plugins/a", ext |-> ".py"], name |-> "A",
           attrs |-> {foo, bar, __doc__}, broken |-> {}, nargs |-> 0,
           nonzero |-> TRUE]
\* The same plugin loaded again from its compiled file, without method foo.
ClassA2 == [file |-> [stem |-> "plugins/a", ext |-> ".pyc"], name |-> "A",
            attrs |-> {bar, __doc__}, broken |-> {bar}, nargs |-> 0,
            nonzero |-> TRUE]
\* A container-like extension: its fresh instance is empty, hence false.
ClassB == [file |-> [stem |-> "plugins/b", ext |-> ".py"], name |-> "B",
           attrs |-> {foo, __len__, __doc__}, broken |-> {}, nargs |-> 0,
           nonzero |-> FALSE]
Classes == {ClassA, ClassA2, ClassB}

Names == {"c1"}

\* What a host passes as system_default: a class, or None for no fallback.
SystemDefaults == {ClassA, ClassB, None}

\* A Python tuple.
tuple(s) == [tuple |-> s]

\* iter(x) succeeds on a tuple; a class or None raises TypeError.
iterable(x) == "tuple" \in DOMAIN x

\* What a host passes as `interfaces`: a tuple, or one bare object.
InterfaceArgs == {tuple(<<>>), tuple(<<IFoo, IBar>>), IFoo}

\* Constructor arguments: the classes above take none.
CtorArgs == {tuple(<<>>), tuple(<<"x">>)}

\* An empty dict.
dict == [k \in {} |-> k]

\* ------------------------------------------------------------ helpers

\* dir(obj) restricted to what the check reads; None has only dunder names.
dir(obj) == IF obj = None THEN {__doc__} ELSE obj.attrs

hasattr(obj, a) == a \in dir(obj)

\* extension.py:378-386
is_implementation(cls, interface_cls) ==
    \A method \in {attribute \in dir(interface_cls) : ~startswith(attribute, "_")} :
        hasattr(cls, method)

\* extension.py:388-398.  None has no __module__: AttributeError.
_get_class_name(cls) ==
    IF cls = None
    THEN [exc |-> "AttributeError", val |-> None]
    ELSE [exc |-> NoExc,
          val |-> [path |-> [stem |-> cls.file.stem,
                             ext |-> IF cls.file.ext = ".pyc" THEN ".py"
                                     ELSE cls.file.ext],
                   name |-> cls.name]]

Ids == {_get_class_name(c).val : c \in Classes}

\* dict[k] = v
put(d, k, v) == (k :> v) @@ d

\* dict.values()
values(d) == {d[k] : k \in DOMAIN d}

\* An instance is its identity and its class.
object(n, cls) == [inst |-> n, cls |-> cls]

\* weakref.ref(inst)
weakref(inst) == [ref |-> inst]

\* Dereference of a weakref.ref: the instance, or None once collected.
deref(h, r) == IF h[r.ref.inst] THEN r.ref ELSE None

\* Truth value of a Python value as `if x:` reads it.
truth(h, x) ==
    IF x \in {None, False} THEN FALSE
    ELSE IF x = True THEN TRUE
    ELSE IF "inst" \in DOMAIN x THEN x.cls.nonzero
    ELSE TRUE

\* ------------------------------------------------------------ class MultipleObjects

\* getattr(obj, attr): the attribute of obj, or AttributeError.
getattr(obj, attr) ==
    IF hasattr(obj, attr)
    THEN [exc |-> NoExc, val |-> [attr |-> attr, of |-> obj]]
    ELSE [exc |-> "AttributeError", val |-> None]

\* obj(*args, **kwargs) on an attribute fetched from a class.
call(obj, args) ==
    IF obj.attr \in obj.of.broken
    THEN [exc |-> "Exception", val |-> None]
    ELSE [exc |-> NoExc, val |-> [result_of |-> obj, args |-> args]]

\* extension.py:85-86
MultipleObjects(dict_of_objs) == [objects |-> dict_of_objs]

\* extension.py:88-92
MultipleObjects_get_result(self) == self.objects

\* extension.py:101-108: entries whose getattr raises are left out.
MultipleObjects___getattr__(self, attr) ==
    MultipleObjects(
        [name \in {n \in DOMAIN self.objects :
                      getattr(self.objects[n], attr).exc = NoExc}
            |-> getattr(self.objects[name], attr).val])

\* extension.py:126-133: entries whose call raises are left out.
MultipleObjects___call__(self, args) ==
    MultipleObjects(
        [name \in {n \in DOMAIN self.objects :
                      call(self.objects[n], args).exc = NoExc}
            |-> call(self.objects[name], args).val])

\* ------------------------------------------------------------ class Category

\* What raising leaves behind: the exception and the (possibly mutated) object.
Raise(e, self) == [exc |-> e, self |-> self, val |-> None]
Return(self, v) == [exc |-> NoExc, self |-> self, val |-> v]

\* Category.register checking the first interface only.
Category_register_first_only(self, cls) ==
    IF /\ self.interfaces # tuple(<<>>)
       /\ ~is_implementation(cls, self.interfaces.tuple[1])
    THEN Raise("ValueError", self)
    ELSE LET class_name == _get_class_name(cls) IN
         IF class_name.exc # NoExc
         THEN Raise(class_name.exc, self)
         ELSE Return([self EXCEPT !.classes = put(@, class_name.val, cls),
                                  !.ids = put(@, cls, class_name.val)], None)

\* extension.py:164-176
Category_register(self, cls) ==
    IF \E i \in DOMAIN self.interfaces.tuple :
           ~is_implementation(cls, self.interfaces.tuple[i])
    THEN Raise("ValueError", self)
    ELSE LET class_name == _get_class_name(cls) IN
         IF class_name.exc # NoExc
         THEN Raise(class_name.exc, self)
         ELSE Return([self EXCEPT !.classes = put(@, class_name.val, cls),
                                  !.ids = put(@, cls, class_name.val)], None)

\* `for cls in to_remove: del self.classes[cls]` (lines 191-192): a del of a
\* key the dict does not hold raises KeyError, and what was deleted stays so.
RECURSIVE del_each(_, _)
del_each(d, to_remove) ==
    IF to_remove = <<>> THEN [exc |-> NoExc, d |-> d]
    ELSE IF Head(to_remove) \notin DOMAIN d THEN [exc |-> "KeyError", d |-> d]
    ELSE del_each([k \in DOMAIN d \ {Head(to_remove)} |-> d[k]], Tail(to_remove))

\* Lines 187-190: cls is appended once for every interface it fails.
RECURSIVE collect_failing(_, _)
collect_failing(clss, interfaces) ==
    IF clss = {} THEN <<>>
    ELSE LET cls == CHOOSE c \in clss : TRUE
             n == Cardinality({i \in DOMAIN interfaces :
                                  ~is_implementation(cls, interfaces[i])})
         IN [i \in 1..n |-> cls] \o collect_failing(clss \ {cls}, interfaces)

\* Category.set_interface without the `if not self.interfaces` test.
Category_set_interface_again(self, interfaces) ==
    IF ~iterable(interfaces)
    THEN Raise("TypeError", self)
    ELSE LET self1 == [self EXCEPT !.interfaces = interfaces]
             to_remove == collect_failing(values(self1.classes),
                                          self1.interfaces.tuple)
             r == del_each(self1.classes, to_remove)
         IN IF r.exc # NoExc
            THEN Raise(r.exc, [self1 EXCEPT !.classes = r.d])
            ELSE Return([self1 EXCEPT !.classes = r.d], True)

\* extension.py:178-196.  tuple(x) of a non-iterable raises TypeError.
Category_set_interface(self, interfaces) ==
    IF self.interfaces = tuple(<<>>)
    THEN IF ~iterable(interfaces)
         THEN Raise("TypeError", self)
         ELSE LET self1 == [self EXCEPT !.interfaces = interfaces]
                  to_remove == collect_failing(values(self1.classes),
                                               self1.interfaces.tuple)
                  r == del_each(self1.classes, to_remove)
              IN IF r.exc # NoExc
                 THEN Raise(r.exc, [self1 EXCEPT !.classes = r.d])
                 ELSE Return([self1 EXCEPT !.classes = r.d], True)
    ELSE Return(self, False)

\* extension.py:199-201
Category_get_extensions(self) == Return(self, self.classes)

\* Category._set_default without the registration of an unknown class.
Category__set_default_unregistered(self, cls) ==
    LET id == _get_class_name(cls) IN
    IF id.exc # NoExc THEN Raise(id.exc, self)
    ELSE IF self.default_id # id.val
         THEN Return([self EXCEPT !.default_id = id.val, !.instance = None], None)
         ELSE Return(self, None)

\* Category._set_default without `self.instance = None`.
Category__set_default_keeps_instance(self, cls) ==
    LET r == IF cls \notin DOMAIN self.ids
             THEN Category_register(self, cls)
             ELSE Return(self, None)
    IN IF r.exc # NoExc THEN r
       ELSE LET id == _get_class_name(cls) IN
            IF id.exc # NoExc THEN Raise(id.exc, r.self)
            ELSE IF r.self.default_id # id.val
                 THEN Return([r.self EXCEPT !.default_id = id.val], None)
                 ELSE Return(r.self, None)

\* Category._set_default that assigns default_id before it registers.
Category__set_default_id_first(self, cls) ==
    LET id == _get_class_name(cls) IN
    IF id.exc # NoExc THEN Raise(id.exc, self)
    ELSE LET self1 == IF self.default_id # id.val
                      THEN [self EXCEPT !.default_id = id.val, !.instance = None]
                      ELSE self
         IN IF cls \notin DOMAIN self1.ids
            THEN Category_register(self1, cls)
            ELSE Return(self1, None)

\* extension.py:203-212
Category__set_default(self, cls) ==
    LET r == IF cls \notin DOMAIN self.ids
             THEN Category_register(self, cls)
             ELSE Return(self, None)
    IN IF r.exc # NoExc THEN r
       ELSE LET id == _get_class_name(cls) IN
            IF id.exc # NoExc THEN Raise(id.exc, r.self)
            ELSE IF r.self.default_id # id.val
                 THEN Return([r.self EXCEPT !.default_id = id.val,
                                            !.instance = None], None)
                 ELSE Return(r.self, None)

\* extension.py:214-216
Category__get_default(self) ==
    IF self.default_id \in DOMAIN self.classes
    THEN Return(self, self.classes[self.default_id])
    ELSE Raise("KeyError", self)

\* Category.__init__ that registers system_default without making it the
\* default.
Category__init___registers_only(name, system_default, interfaces, single_instance) ==
    LET self == [name |-> name,
                 system_default |-> IF system_default # None THEN system_default
                                    ELSE Unset,
                 interfaces |-> IF interfaces = None THEN tuple(<<>>)
                                ELSE interfaces,
                 classes |-> dict,
                 ids |-> dict,
                 is_single |-> single_instance,
                 instance |-> None,
                 default_id |-> None]
    IN Category_register(self, system_default)

\* extension.py:138-162.  `self.default = system_default` is _set_default.
Category__init__(name, system_default, interfaces, single_instance) ==
    LET self == [name |-> name,
                 system_default |-> IF system_default # None THEN system_default
                                    ELSE Unset,
                 interfaces |-> IF interfaces = None THEN tuple(<<>>)
                                ELSE interfaces,
                 classes |-> dict,
                 ids |-> dict,
                 is_single |-> single_instance,
                 instance |-> None,
                 default_id |-> None]
    IN Category__set_default(self, system_default)

\* Category.get_instance over a strong reference: the referent never goes.
Category_get_instance_strong(self, h) ==
    IF self.instance # None
    THEN self.instance.ref
    ELSE None

\* extension.py:220-228.  A weakref.ref object is always true, dead or not.
Category_get_instance(self, h) ==
    IF self.instance # None
    THEN deref(h, self.instance)
    ELSE None

\* cls(*args, **kwargs): a new object, or TypeError on a wrong argument count.
construct(h, cls, args) ==
    IF Len(args.tuple) # cls.nargs
    THEN [exc |-> "TypeError", heap |-> h, val |-> None]
    ELSE [exc |-> NoExc,
          heap |-> Append(h, TRUE),
          val |-> object(Len(h) + 1, cls)]

\* Category.get_and_instantiate saving the reference whatever is_single says.
Category_get_and_instantiate_always_saves(self, h, args) ==
    IF truth(h, Category_get_instance(self, h))
    THEN [exc |-> NoExc, self |-> self, heap |-> h,
          val |-> Category_get_instance(self, h)]
    ELSE LET cls == Category__get_default(self) IN
         IF cls.exc # NoExc
         THEN [exc |-> cls.exc, self |-> self, heap |-> h, val |-> None]
         ELSE LET inst == construct(h, cls.val, args) IN
              IF inst.exc # NoExc
              THEN [exc |-> inst.exc, self |-> self, heap |-> h, val |-> None]
              ELSE [exc |-> NoExc,
                    self |-> [self EXCEPT !.instance = weakref(inst.val)],
                    heap |-> inst.heap, val |-> inst.val]

\* extension.py:230-246
Category_get_and_instantiate(self, h, args) ==
    IF truth(h, Category_get_instance(self, h))
    THEN [exc |-> NoExc, self |-> self, heap |-> h,
          val |-> Category_get_instance(self, h)]
    ELSE LET cls == Category__get_default(self) IN
         IF cls.exc # NoExc
         THEN [exc |-> cls.exc, self |-> self, heap |-> h, val |-> None]
         ELSE LET inst == construct(h, cls.val, args) IN
              IF inst.exc # NoExc
              THEN [exc |-> inst.exc, self |-> self, heap |-> h, val |-> None]
              ELSE IF self.is_single
                   THEN [exc |-> NoExc,
                         self |-> [self EXCEPT !.instance = weakref(inst.val)],
                         heap |-> inst.heap, val |-> inst.val]
                   ELSE [exc |-> NoExc, self |-> self, heap |-> inst.heap,
                         val |-> inst.val]

\* extension.py:249-258.  No return statement: the result is None either way.
Category_set_default_by_id(self, id_) ==
    IF id_ \notin DOMAIN self.classes
    THEN Return(self, None)
    ELSE Category__set_default(self, self.classes[id_])

\* Category.use without the `if self.is_single` branch.
Category_use_all(self) ==
    Return(self, MultipleObjects(Category_get_extensions(self).val))

\* extension.py:260-263
Category_use(self) ==
    IF self.is_single
    THEN LET default == Category__get_default(self)
         IN IF default.exc # NoExc THEN Raise(default.exc, self)
            ELSE Return(self, MultipleObjects(put(dict, self.default_id, default.val)))
    ELSE Return(self, MultipleObjects(Category_get_extensions(self).val))

\* ------------------------------------------------------------ module functions

\* Outcome of a module-level function: exception, registry, heap, result.
Out(e, cats, h, v) == [exc |-> e, cats |-> cats, heap |-> h, val |-> v]

\* extension.py:293-295
get_category(cats, category_name) ==
    IF category_name \in DOMAIN cats THEN cats[category_name] ELSE None

\* category_register that stores the category whether or not its
\* construction raised.
category_register_keeps_failed(cats, h, category, system_default, interfaces, single_instance) ==
    LET interfaces1 == IF iterable(interfaces) THEN interfaces
                       ELSE tuple(<<interfaces>>)
    IN IF category \notin DOMAIN cats
       THEN LET c == Category__init__(category, system_default, interfaces1,
                                      single_instance)
            IN Out(c.exc, put(cats, category, c.self), h, None)
       ELSE LET r == Category_set_interface(cats[category], interfaces1)
            IN Out(r.exc, [cats EXCEPT ![category] = r.self], h, None)

\* category_register that constructs the category anew when the name exists.
category_register_anew(cats, h, category, system_default, interfaces, single_instance) ==
    LET interfaces1 == IF iterable(interfaces) THEN interfaces
                       ELSE tuple(<<interfaces>>)
        c == Category__init__(category, system_default, interfaces1,
                              single_instance)
    IN IF c.exc # NoExc
       THEN Out(c.exc, cats, h, None)
       ELSE Out(NoExc, put(cats, category, c.self), h, None)

\* extension.py:267-276.  A Category whose __init__ raises is never stored; a
\* set_interface that raises has already changed the stored object.
category_register(cats, h, category, system_default, interfaces, single_instance) ==
    LET interfaces1 == IF iterable(interfaces) THEN interfaces
                       ELSE tuple(<<interfaces>>)
    IN IF category \notin DOMAIN cats
       THEN LET c == Category__init__(category, system_default, interfaces1,
                                      single_instance)
            IN IF c.exc # NoExc
               THEN Out(c.exc, cats, h, None)
               ELSE Out(NoExc, put(cats, category, c.self), h, None)
       ELSE LET r == Category_set_interface(cats[category], interfaces1)
            IN Out(r.exc, [cats EXCEPT ![category] = r.self], h, None)

\* extension.py:278-291
register(cats, h, category_name, cls) ==
    LET category == get_category(cats, category_name)
    IN IF category = None
       THEN category_register(cats, h, category_name, cls, tuple(<<>>), FALSE)
       ELSE LET r == Category_register(category, cls)
            IN IF r.exc # NoExc
               THEN Out(r.exc, cats, h, None)
               ELSE Out(NoExc, [cats EXCEPT ![category_name] = r.self], h, True)

\* extension.py:318-327
get_instance(cats, h, category_name) ==
    LET category == get_category(cats, category_name)
    IN IF category # None
       THEN Out(NoExc, cats, h, Category_get_instance(category, h))
       ELSE Out(NoExc, cats, h, None)

\* extension.py:329-340
get_and_instantiate(cats, h, category_name, args) ==
    LET category == get_category(cats, category_name)
    IN IF category # None
       THEN LET r == Category_get_and_instantiate(category, h, args)
            IN Out(r.exc, [cats EXCEPT ![category_name] = r.self], r.heap, r.val)
       ELSE Out(NoExc, cats, h, None)

\* set_default that creates a missing category, as register does.
set_default_creating(cats, h, category_name, cls) ==
    LET category == get_category(cats, category_name)
    IN IF category # None
       THEN LET r == Category__set_default(category, cls)
            IN IF r.exc # NoExc
               THEN Out(r.exc, [cats EXCEPT ![category_name] = r.self], h, None)
               ELSE Out(NoExc, [cats EXCEPT ![category_name] = r.self], h, True)
       ELSE LET r == category_register(cats, h, category_name, cls, tuple(<<>>),
                                       FALSE)
            IN Out(r.exc, r.cats, r.heap, False)

\* extension.py:342-352
set_default(cats, h, category_name, cls) ==
    LET category == get_category(cats, category_name)
    IN IF category # None
       THEN LET r == Category__set_default(category, cls)
            IN IF r.exc # NoExc
               THEN Out(r.exc, [cats EXCEPT ![category_name] = r.self], h, None)
               ELSE Out(NoExc, [cats EXCEPT ![category_name] = r.self], h, True)
       ELSE Out(NoExc, cats, h, False)

\* extension.py:354-365
set_default_by_id(cats, h, category_name, id_) ==
    LET category == get_category(cats, category_name)
    IN IF category # None
       THEN LET r == Category_set_default_by_id(category, id_)
            IN IF r.exc # NoExc
               THEN Out(r.exc, [cats EXCEPT ![category_name] = r.self], h, None)
               ELSE Out(NoExc, [cats EXCEPT ![category_name] = r.self], h, True)
       ELSE Out(NoExc, cats, h, False)

\* extension.py:301-307
get_extensions(cats, h, category_name) ==
    LET category == get_category(cats, category_name)
    IN IF category # None
       THEN Out(NoExc, cats, h, Category_get_extensions(category).val)
       ELSE Out(NoExc, cats, h, None)

\* extension.py:309-316
get_default(cats, h, category_name) ==
    LET category == get_category(cats, category_name)
    IN IF category # None
       THEN LET r == Category__get_default(category)
            IN Out(r.exc, cats, h, r.val)
       ELSE Out(NoExc, cats, h, None)

\* extension.py:367-376.  An attribute never assigned raises AttributeError.
get_system_default(cats, h, category_name) ==
    LET category == get_category(cats, category_name)
    IN IF category # None
       THEN IF category.system_default = Unset
            THEN Out("AttributeError", cats, h, None)
            ELSE Out(NoExc, cats, h, category.system_default)
       ELSE Out(NoExc, cats, h, None)

\* ------------------------------------------------------------ the host's calls

\* What the host could observe of a category just before its call.
Before(c) ==
    IF c \in DOMAIN _categories
    THEN [default_id |-> _categories[c].default_id,
          default |-> Category__get_default(_categories[c]).val,
          inst |-> Category_get_instance(_categories[c], heap)]
    ELSE None

\* The record of a call: what was called, with what, and how it ended.
Log(op, c, arg, r) ==
    [op |-> op, cat |-> c, arg |-> arg, exc |-> r.exc, val |-> r.val,
     before |-> Before(c)]

Host_category_register(c, sd, ifs, single) ==
    LET r == category_register(_categories, heap, c, sd, ifs, single)
    IN /\ _categories' = r.cats
       /\ heap' = r.heap
       /\ UNCHANGED callers
       /\ ret' = Log("category_register", c, None, r)

Host_register(c, cls) ==
    LET r == register(_categories, heap, c, cls)
    IN /\ _categories' = r.cats
       /\ heap' = r.heap
       /\ UNCHANGED callers
       /\ ret' = Log("register", c, cls, r)

Host_get_instance(c) ==
    LET r == get_instance(_categories, heap, c)
    IN /\ _categories' = r.cats
       /\ heap' = r.heap
       /\ UNCHANGED callers
       /\ ret' = Log("get_instance", c, None, r)

\* The run is cut off once MaxInst instances have been constructed.
Host_get_and_instantiate(c, args) ==
    LET r == get_and_instantiate(_categories, heap, c, args)
    IN /\ Len(r.heap) <= MaxInst
       /\ _categories' = r.cats
       /\ heap' = r.heap
       /\ UNCHANGED callers
       /\ ret' = Log("get_and_instantiate", c, args, r)

Host_set_default(c, cls) ==
    LET r == set_default(_categories, heap, c, cls)
    IN /\ _categories' = r.cats
       /\ heap' = r.heap
       /\ UNCHANGED callers
       /\ ret' = Log("set_default", c, cls, r)

Host_set_default_by_id(c, id_) ==
    LET r == set_default_by_id(_categories, heap, c, id_)
    IN /\ _categories' = r.cats
       /\ heap' = r.heap
       /\ UNCHANGED callers
       /\ ret' = Log("set_default_by_id", c, id_, r)

\* Methods called on the Category object that get_category returned.
Host_Category_set_interface(c, ifs) ==
    /\ c \in DOMAIN _categories
    /\ LET r == Category_set_interface(_categories[c], ifs)
       IN /\ _categories' = [_categories EXCEPT ![c] = r.self]
          /\ heap' = heap
          /\ UNCHANGED callers
          /\ ret' = Log("Category.set_interface", c, ifs, r)

Host_Category_set_default_by_id(c, id_) ==
    /\ c \in DOMAIN _categories
    /\ LET r == Category_set_default_by_id(_categories[c], id_)
       IN /\ _categories' = [_categories EXCEPT ![c] = r.self]
          /\ heap' = heap
          /\ UNCHANGED callers
          /\ ret' = Log("Category.set_default_by_id", c, id_, r)

\* The Category object itself is what the host gets.
Host_get_category(c) ==
    LET r == Out(NoExc, _categories, heap, get_category(_categories, c))
    IN /\ _categories' = r.cats
       /\ heap' = r.heap
       /\ UNCHANGED callers
       /\ ret' = Log("get_category", c, None, r)

\* The dict is logged inside a record, None as it is.
Host_get_extensions(c) ==
    LET r == get_extensions(_categories, heap, c)
    IN /\ _categories' = r.cats
       /\ heap' = r.heap
       /\ UNCHANGED callers
       /\ ret' = Log("get_extensions", c, None,
                     IF c \in DOMAIN _categories
                     THEN Out(r.exc, r.cats, r.heap, [dict |-> r.val])
                     ELSE r)

Host_get_default(c) ==
    LET r == get_default(_categories, heap, c)
    IN /\ _categories' = r.cats
       /\ heap' = r.heap
       /\ UNCHANGED callers
       /\ ret' = Log("get_default", c, None, r)

Host_get_system_default(c) ==
    LET r == get_system_default(_categories, heap, c)
    IN /\ _categories' = r.cats
       /\ heap' = r.heap
       /\ UNCHANGED callers
       /\ ret' = Log("get_system_default", c, None, r)

\* get_category(c).use().<attr>(*args): the fan-out view of the results.
Host_use_call(c, attr, args) ==
    /\ c \in DOMAIN _categories
    /\ LET r == Category_use(_categories[c])
       IN /\ _categories' = [_categories EXCEPT ![c] = r.self]
          /\ heap' = heap
          /\ UNCHANGED callers
          /\ ret' = Log("use", c, [attr |-> attr, args |-> args],
                        IF r.exc # NoExc THEN r
                        ELSE Return(r.self,
                                    MultipleObjects___call__(
                                        MultipleObjects___getattr__(r.val, attr),
                                        args)))

\* The host drops its last strong reference to instance n: it is collected.
Collect(n) ==
    /\ n \in DOMAIN heap
    /\ heap[n]
    /\ heap' = [heap EXCEPT ![n] = FALSE]
    /\ ret' = [op |-> "collect", cat |-> "", arg |-> None,
               exc |-> NoExc, val |-> None, before |-> None]
    /\ UNCHANGED <<_categories, callers>>

Init ==
    /\ _categories = dict
    /\ heap = <<>>
    /\ ret = [op |-> "import", cat |-> "", arg |-> None, exc |-> NoExc,
              val |-> None, before |-> None]
    /\ callers = <<>>

Next ==
    \/ \E c \in Names, sd \in SystemDefaults, ifs \in InterfaceArgs,
          single \in BOOLEAN : Host_category_register(c, sd, ifs, single)
    \/ \E c \in Names, cls \in Classes : Host_register(c, cls)
    \/ \E c \in Names : Host_get_instance(c)
    \/ \E c \in Names, args \in CtorArgs : Host_get_and_instantiate(c, args)
    \/ \E c \in Names, cls \in Classes \cup {None} : Host_set_default(c, cls)
    \/ \E c \in Names, id_ \in Ids : Host_set_default_by_id(c, id_)
    \/ \E c \in Names, ifs \in InterfaceArgs : Host_Category_set_interface(c, ifs)
    \/ \E c \in Names, id_ \in Ids : Host_Category_set_default_by_id(c, id_)
    \/ \E c \in Names, attr \in {foo, bar} : Host_use_call(c, attr, tuple(<<>>))
    \/ \E n \in 1..MaxInst : Collect(n)

Spec == Init /\ [][Next]_vars

\* ------------------------------------------------------------ two categories

\* The registry with two category names and every module-level function,
\* over fewer classes and without collection.
Names2 == {"c1", "c2"}

Classes2 == {ClassA, ClassB}

InterfaceArgs2 == {tuple(<<>>), tuple(<<IFoo, IBar>>)}

\* Multi-instance categories only.
Singles2 == {FALSE}

Ids2 == {_get_class_name(cls).val : cls \in Classes2}

NextRegistry ==
    \/ \E c \in Names2, sd \in Classes2, ifs \in InterfaceArgs2,
          single \in Singles2 : Host_category_register(c, sd, ifs, single)
    \/ \E c \in Names2, cls \in Classes2 : Host_register(c, cls)
    \/ \E c \in Names2 : Host_get_instance(c)
    \/ \E c \in Names2 : Host_get_and_instantiate(c, tuple(<<>>))
    \/ \E c \in Names2, cls \in Classes2 : Host_set_default(c, cls)
    \/ \E c \in Names2, id_ \in Ids2 : Host_set_default_by_id(c, id_)
    \/ \E c \in Names2 : Host_get_category(c)
    \/ \E c \in Names2 : Host_get_extensions(c)
    \/ \E c \in Names2 : Host_get_default(c)
    \/ \E c \in Names2 : Host_get_system_default(c)

SpecRegistry == Init /\ [][NextRegistry]_vars

\* ------------------------------------------------------------ interleaved calls

\* Two callers of Category.get_and_instantiate and one of the default
\* setter run on the same registry, a statement at a time: nothing in
\* extension.py takes a lock.  A frame holds a call's position and locals.
Callers == {1, 2}

Setter == 0

Idle ==
    [pc |-> "idle", cat |-> "", cls |-> None, inst |-> None, val |-> None,
     overtaken |-> FALSE]

At(t, pc) == callers[t].pc = pc /\ callers[t].cat \in DOMAIN _categories

\* The call is made: get_category, then Category.get_and_instantiate.
Caller_get_and_instantiate(t, c) ==
    /\ callers[t].pc = "idle"
    /\ c \in DOMAIN _categories
    /\ callers' = [callers EXCEPT ![t] = [Idle EXCEPT !.pc = "check", !.cat = c]]
    /\ UNCHANGED <<_categories, heap, ret>>

\* extension.py:239  if self.get_instance():
Caller_check(t) ==
    /\ At(t, "check")
    /\ callers' = [callers EXCEPT ![t].pc =
                       IF truth(heap, Category_get_instance(
                                          _categories[callers[t].cat], heap))
                       THEN "return_saved" ELSE "default"]
    /\ UNCHANGED <<_categories, heap, ret>>

\* extension.py:240  return self.get_instance()
Caller_return_saved(t) ==
    /\ At(t, "return_saved")
    /\ callers' = [callers EXCEPT ![t].pc = "done",
                                  ![t].val = Category_get_instance(
                                                 _categories[callers[t].cat], heap)]
    /\ UNCHANGED <<_categories, heap, ret>>

\* extension.py:241  cls = self.default
Caller_default(t) ==
    /\ At(t, "default")
    /\ LET r == Category__get_default(_categories[callers[t].cat])
       IN callers' = [callers EXCEPT ![t].pc = IF r.exc # NoExc THEN "raised"
                                               ELSE "construct",
                                     ![t].cls = r.val]
    /\ UNCHANGED <<_categories, heap, ret>>

\* extension.py:242  inst = cls(*args, **kwargs)
Caller_construct(t) ==
    /\ At(t, "construct")
    /\ LET inst == construct(heap, callers[t].cls, tuple(<<>>))
       IN /\ heap' = inst.heap
          /\ callers' = [callers EXCEPT ![t].pc = IF inst.exc # NoExc THEN "raised"
                                                  ELSE "save",
                                        ![t].inst = inst.val]
    /\ UNCHANGED <<_categories, ret>>

\* extension.py:243-246  if self.is_single: self.instance = weakref.ref(inst)
\* and return inst.
Caller_save(t) ==
    /\ At(t, "save")
    /\ _categories' =
           IF _categories[callers[t].cat].is_single
           THEN [_categories EXCEPT ![callers[t].cat].instance =
                                        weakref(callers[t].inst)]
           ELSE _categories
    /\ callers' = [callers EXCEPT ![t].pc = "done", ![t].val = callers[t].inst]
    /\ UNCHANGED <<heap, ret>>

\* set_default(c, cls) is called: get_category, then `category.default = cls`.
Setter_set_default(c, cls) ==
    /\ callers[Setter].pc \in {"idle", "done", "raised"}
    /\ c \in DOMAIN _categories
    /\ callers' = [callers EXCEPT ![Setter] =
                       [Idle EXCEPT !.pc = "register", !.cat = c, !.cls = cls]]
    /\ UNCHANGED <<_categories, heap, ret>>

\* extension.py:206-207  if cls not in self.ids: self.register(cls)
Setter_register ==
    /\ At(Setter, "register")
    /\ LET c == callers[Setter].cat
           cls == callers[Setter].cls
           r == IF cls \notin DOMAIN _categories[c].ids
                THEN Category_register(_categories[c], cls)
                ELSE Return(_categories[c], None)
       IN /\ _categories' = [_categories EXCEPT ![c] = r.self]
          /\ callers' = [callers EXCEPT ![Setter].pc =
                             IF r.exc # NoExc THEN "raised" ELSE "default_id"]
    /\ UNCHANGED <<heap, ret>>

\* extension.py:209-211  id = _get_class_name(cls); if self.default_id != id:
\* self.default_id = id.  A get_and_instantiate that holds the former
\* default between its lines 241 and 244 is overtaken.
Setter_default_id ==
    /\ At(Setter, "default_id")
    /\ LET c == callers[Setter].cat
           id == _get_class_name(callers[Setter].cls).val
           changes == _categories[c].default_id # id
       IN /\ _categories' = [_categories EXCEPT ![c].default_id = id]
          /\ callers' =
                 [t \in DOMAIN callers |->
                     IF t = Setter
                     THEN [callers[t] EXCEPT !.pc = IF changes THEN "instance"
                                                    ELSE "done"]
                     ELSE IF /\ changes
                             /\ callers[t].cat = c
                             /\ callers[t].pc \in {"construct", "save"}
                          THEN [callers[t] EXCEPT !.overtaken = TRUE]
                          ELSE callers[t]]
    /\ UNCHANGED <<heap, ret>>

\* The default setter without its `self.instance = None`.
Setter_instance_kept ==
    /\ At(Setter, "instance")
    /\ callers' = [callers EXCEPT ![Setter].pc = "done"]
    /\ UNCHANGED <<_categories, heap, ret>>

\* extension.py:212  self.instance = None
Setter_instance ==
    /\ At(Setter, "instance")
    /\ _categories' = [_categories EXCEPT ![callers[Setter].cat].instance = None]
    /\ callers' = [callers EXCEPT ![Setter].pc = "done"]
    /\ UNCHANGED <<heap, ret>>

InitInterleaved ==
    /\ _categories = dict
    /\ heap = <<>>
    /\ ret = [op |-> "import", cat |-> "", arg |-> None, exc |-> NoExc,
              val |-> None, before |-> None]
    /\ callers = [t \in Callers \cup {Setter} |-> Idle]

NextInterleaved ==
    \/ \E c \in Names, sd \in Classes2, single \in BOOLEAN :
          Host_category_register(c, sd, tuple(<<>>), single)
    \/ \E t \in Callers, c \in Names : Caller_get_and_instantiate(t, c)
    \/ \E t \in Callers : Caller_check(t)
    \/ \E t \in Callers : Caller_return_saved(t)
    \/ \E t \in Callers : Caller_default(t)
    \/ \E t \in Callers : Caller_construct(t)
    \/ \E t \in Callers : Caller_save(t)
    \/ \E c \in Names, cls \in Classes2 : Setter_set_default(c, cls)
    \/ Setter_register
    \/ Setter_default_id
    \/ Setter_instance

SpecInterleaved == InitInterleaved /\ [][NextInterleaved]_vars

\* ------------------------------------------------------------ properties

\* cls conforms to every interface of the tuple.
Conforms(cls, interfaces) ==
    \A i \in DOMAIN interfaces.tuple : is_implementation(cls, interfaces.tuple[i])

\* The dict d without the entries whose value fails one of the interfaces.
Filtered(d, interfaces) ==
    [k \in {j \in DOMAIN d : Conforms(d[j], interfaces)} |-> d[k]]

Exists(c) == c \in DOMAIN _categories

\* C1: in every reachable state, a category whose required interfaces are
\* non-empty holds only implementations that conform to every one of them.
C1_OnlyConforming ==
    \A c \in DOMAIN _categories :
        _categories[c].interfaces # tuple(<<>>) =>
            \A cls \in values(_categories[c].classes) :
                Conforms(cls, _categories[c].interfaces)

\* C2: set_interface on a category without interfaces returns True, adopts the
\* new interfaces and leaves exactly the previous table minus the
\* implementations that fail one of them (directly, and through
\* category_register on an existing name).
C2_SetInterfaceFilters ==
    [][\A c \in Names, ifs \in InterfaceArgs :
        /\ (/\ Exists(c)
            /\ _categories[c].interfaces = tuple(<<>>)
            /\ iterable(ifs)
            /\ Host_Category_set_interface(c, ifs))
           => /\ ret'.exc = NoExc
              /\ ret'.val = True
              /\ _categories'[c].interfaces = ifs
              /\ _categories'[c].classes = Filtered(_categories[c].classes, ifs)
        /\ \A sd \in SystemDefaults, single \in BOOLEAN :
           (/\ Exists(c)
            /\ _categories[c].interfaces = tuple(<<>>)
            /\ iterable(ifs)
            /\ Host_category_register(c, sd, ifs, single))
           => /\ ret'.exc = NoExc
              /\ _categories'[c].interfaces = ifs
              /\ _categories'[c].classes = Filtered(_categories[c].classes, ifs)
      ]_vars

\* C3: register on an existing category accepts cls exactly when cls conforms
\* to every required interface; otherwise it raises ValueError and the
\* category (table, default_id, cached instance) is as before.
C3_RegisterValidates ==
    [][\A c \in Names, cls \in Classes :
        (Exists(c) /\ Host_register(c, cls))
        => IF Conforms(cls, _categories[c].interfaces)
           THEN /\ ret'.exc = NoExc
                /\ ret'.val = True
                /\ _get_class_name(cls).val \in DOMAIN _categories'[c].classes
                /\ _categories'[c].classes[_get_class_name(cls).val] = cls
           ELSE /\ ret'.exc = "ValueError"
                /\ _categories' = _categories
                /\ heap' = heap
      ]_vars

\* C3 happens: a class that lacks a required method was just rejected.
C3_Witness ==
    /\ ret.op = "register"
    /\ ret.exc = "ValueError"
    /\ Exists(ret.cat)
    /\ ~Conforms(ret.arg, _categories[ret.cat].interfaces)
    /\ _categories[ret.cat].classes # dict

Cached(c) == Category_get_instance(_categories[c], heap)

Single(c) == Exists(c) /\ _categories[c].is_single

\* The call constructed a new object and returned it.
Fresh(r) ==
    /\ r.exc = NoExc
    /\ heap' = Append(heap, TRUE)
    /\ r.val # None
    /\ r.val.inst = Len(heap) + 1

\* C5: in a single-instance category a get_and_instantiate that directly
\* follows a successful one (its instance still held) returns the identical
\* instance, whatever the class, constructs nothing and ignores its arguments.
C5_SecondCallReturnsSame ==
    [][\A c \in Names, args \in CtorArgs :
        (/\ Single(c)
         /\ ret.op = "get_and_instantiate"
         /\ ret.cat = c
         /\ ret.exc = NoExc
         /\ Host_get_and_instantiate(c, args))
        => /\ ret'.exc = NoExc
           /\ ret'.val = ret.val
           /\ heap' = heap
      ]_vars

\* C6: in a single-instance category with a live cached instance, a
\* set_default that takes effect on a class with another id clears the cache,
\* and the get_and_instantiate that follows it constructs a new instance of
\* the new default instead of returning the old one.
C6_ChangeClearsCache ==
    [][\A c \in Names :
        /\ \A cls \in Classes :
           (/\ Single(c)
            /\ Cached(c) # None
            /\ _get_class_name(cls).val # _categories[c].default_id
            /\ Host_set_default(c, cls)
            /\ ret'.exc = NoExc)
           => /\ _categories'[c].default_id = _get_class_name(cls).val
              /\ Category_get_instance(_categories'[c], heap') = None
        /\ \A args \in CtorArgs :
           (/\ Single(c)
            /\ ret.op = "set_default"
            /\ ret.cat = c
            /\ ret.exc = NoExc
            /\ ret.before # None
            /\ ret.before.inst # None
            /\ ret.before.default_id # _categories[c].default_id
            /\ Host_get_and_instantiate(c, args))
           => /\ ret'.val # ret.before.inst
              /\ ret'.exc = NoExc
                 => /\ Fresh(ret')
                    /\ ret'.val.cls = _categories[c].classes[_categories[c].default_id]
                    /\ _get_class_name(ret'.val.cls).val = _get_class_name(ret.arg).val
      ]_vars

\* C6 happens: set_default just replaced the default of a single-instance
\* category whose cache held a live instance.
C6_Witness ==
    /\ ret.op = "set_default"
    /\ ret.exc = NoExc
    /\ Single(ret.cat)
    /\ ret.before # None
    /\ ret.before.inst # None
    /\ ret.before.default_id # _categories[ret.cat].default_id

\* The last call named the implementation that was already the default.
NamedTheDefault(c) ==
    /\ ret.cat = c
    /\ ret.exc = NoExc
    /\ ret.before # None
    /\ \/ /\ ret.op = "set_default"
          /\ ret.arg = ret.before.default
       \/ /\ ret.op \in {"set_default_by_id", "Category.set_default_by_id"}
          /\ ret.arg = ret.before.default_id

\* C7: set_default or set_default_by_id naming the implementation that is
\* already the default leaves default_id, the table and a populated cache as
\* they were, and a following get_and_instantiate returns the cached instance.
C7_SameDefaultIsNoOp ==
    [][\A c \in Names :
        /\ \A cls \in Classes :
           (/\ Exists(c)
            /\ Cached(c) # None
            /\ cls = _categories[c].classes[_categories[c].default_id]
            /\ Host_set_default(c, cls))
           => /\ _categories' = _categories
              /\ heap' = heap
        /\ \A id_ \in Ids :
           (/\ Exists(c)
            /\ Cached(c) # None
            /\ id_ = _categories[c].default_id
            /\ (Host_set_default_by_id(c, id_) \/ Host_Category_set_default_by_id(c, id_)))
           => /\ _categories' = _categories
              /\ heap' = heap
        /\ \A args \in CtorArgs :
           (/\ Exists(c)
            /\ NamedTheDefault(c)
            /\ ret.before.inst # None
            /\ Host_get_and_instantiate(c, args))
           => /\ ret'.exc = NoExc
              /\ ret'.val = ret.before.inst
      ]_vars

\* C8: the cache holds its instance weakly: once the instance is collected
\* get_instance returns None, and the next get_and_instantiate constructs and
\* caches a new instance.
C8_WeakCache ==
    [][\A c \in Names :
        /\ \A n \in 1..MaxInst :
           (/\ Exists(c)
            /\ Cached(c) # None
            /\ Cached(c).inst = n
            /\ Collect(n))
           => get_instance(_categories', heap', c).val = None
        /\ (/\ Exists(c)
            /\ _categories[c].instance # None
            /\ ~heap[_categories[c].instance.ref.inst]
            /\ Host_get_instance(c))
           => ret'.val = None
        /\ \A args \in CtorArgs :
           (/\ Exists(c)
            /\ _categories[c].instance # None
            /\ ~heap[_categories[c].instance.ref.inst]
            /\ Host_get_and_instantiate(c, args)
            /\ ret'.exc = NoExc)
           => /\ Fresh(ret')
              /\ ret'.val # _categories[c].instance.ref
              /\ _categories'[c].instance = weakref(ret'.val)
              /\ Category_get_instance(_categories'[c], heap') = ret'.val
      ]_vars

\* C8 happens: get_instance was just called on a category whose cached
\* instance had been collected.
C8_Witness ==
    /\ ret.op = "get_instance"
    /\ Exists(ret.cat)
    /\ _categories[ret.cat].instance # None
    /\ ~heap[_categories[ret.cat].instance.ref.inst]
    /\ ret.val = None

\* C9: a category created with single_instance false never has an instance
\* to return, and each of its get_and_instantiate calls constructs a new one.
C9_MultiNeverCaches ==
    /\ [](\A c \in DOMAIN _categories :
            ~_categories[c].is_single =>
                get_instance(_categories, heap, c).val = None)
    /\ [][\A c \in Names, args \in CtorArgs :
            (/\ Exists(c)
             /\ ~_categories[c].is_single
             /\ Host_get_and_instantiate(c, args)
             /\ ret'.exc = NoExc)
            => Fresh(ret')
         ]_vars

\* C9 happens: a multi-instance category has just constructed its second
\* instance.
C9_Witness ==
    /\ ret.op = "get_and_instantiate"
    /\ ret.exc = NoExc
    /\ Exists(ret.cat)
    /\ ~_categories[ret.cat].is_single
    /\ ret.val # None
    /\ ret.val.inst = 2
    /\ heap[1]

\* C10: set_default_by_id with an id the category does not hold returns
\* failure without raising and changes nothing; with a registered id it
\* returns success and acts as set_default on that implementation; for the
\* method of Category and for the module function alike.
C10_SetDefaultById ==
    [][\A c \in Names, id_ \in Ids :
        /\ (/\ Exists(c)
            /\ Host_set_default_by_id(c, id_))
           => IF id_ \notin DOMAIN _categories[c].classes
              THEN /\ ret'.exc = NoExc
                   /\ ret'.val = False
                   /\ _categories' = _categories
              ELSE /\ ret'.exc = NoExc
                   /\ ret'.val = True
                   /\ _categories' =
                        set_default(_categories, heap, c, _categories[c].classes[id_]).cats
        /\ (/\ Exists(c)
            /\ Host_Category_set_default_by_id(c, id_))
           => IF id_ \notin DOMAIN _categories[c].classes
              THEN /\ ret'.exc = NoExc
                   /\ ~truth(heap, ret'.val)
                   /\ _categories' = _categories
              ELSE /\ ret'.exc = NoExc
                   /\ truth(heap, ret'.val)
                   /\ _categories' =
                        set_default(_categories, heap, c, _categories[c].classes[id_]).cats
      ]_vars

Normalised(ifs) == IF iterable(ifs) THEN ifs ELSE tuple(<<ifs>>)

\* C12: category_register for a new name, with a system default that is
\* unset or conforms to the interfaces, succeeds and yields a category with
\* an empty table, default_id None, no cached instance, and the system
\* default stored as given.
C12_CreateEmpty ==
    [][\A c \in Names, sd \in SystemDefaults, ifs \in InterfaceArgs,
          single \in BOOLEAN :
          (/\ ~Exists(c)
           /\ (sd = None \/ Conforms(sd, Normalised(ifs)))
           /\ Host_category_register(c, sd, ifs, single)) =>
              /\ ret'.exc = NoExc
              /\ c \in DOMAIN _categories'
              /\ _categories'[c].classes = dict
              /\ _categories'[c].default_id = None
              /\ _categories'[c].instance = None
              /\ _categories'[c].system_default =
                     (IF sd = None THEN Unset ELSE sd)
              /\ _categories'[c].is_single = single]_vars

\* C13: on a category whose interfaces are non-empty, set_interface returns
\* False without raising and changes nothing, category_register on its name
\* changes nothing either, and no step at all changes its interfaces.
C13_InterfacesSetOnce ==
    [][\A c \in Names :
          (Exists(c) /\ _categories[c].interfaces # tuple(<<>>)) =>
              /\ c \in DOMAIN _categories'
              /\ _categories'[c].interfaces = _categories[c].interfaces
              /\ (ret'.op = "Category.set_interface" /\ ret'.cat = c) =>
                     /\ ret'.exc = NoExc
                     /\ ret'.val = False
                     /\ _categories' = _categories
                     /\ heap' = heap
              /\ (ret'.op = "category_register" /\ ret'.cat = c) =>
                     /\ ret'.exc = NoExc
                     /\ _categories' = _categories
                     /\ heap' = heap]_vars

C13_Witness ==
    /\ ret.op = "Category.set_interface"
    /\ ret.exc = NoExc
    /\ ret.val = False
    /\ ret.arg # tuple(<<>>)
    /\ ret.cat \in DOMAIN _categories
    /\ _categories[ret.cat].interfaces # ret.arg

\* The module functions that look a category up and give up when it is absent.
LookupOps ==
    {"get_category", "get_extensions", "get_default", "get_instance",
     "get_and_instantiate", "get_system_default"}

SetterOps == {"set_default", "set_default_by_id"}

\* C14: called with a name that is not in the registry, get_category,
\* get_extensions, get_default, get_instance, get_and_instantiate and
\* get_system_default return None, set_default and set_default_by_id return
\* False, none of them raises, and none of them adds a category, changes an
\* existing one or constructs anything.
C14_AbsentCategory ==
    [][\A c \in Names2 :
          (~Exists(c) /\ ret'.cat = c /\ ret'.op \in LookupOps \cup SetterOps) =>
              /\ ret'.exc = NoExc
              /\ ret'.op \in LookupOps => ret'.val = None
              /\ ret'.op \in SetterOps => ret'.val = False
              /\ _categories' = _categories
              /\ heap' = heap]_vars

C14_Witness ==
    /\ ret.op = "set_default"
    /\ ret.cat \in Names2 \ DOMAIN _categories
    /\ DOMAIN _categories # {}
    /\ ret.exc = NoExc
    /\ ret.val = False

\* C15: a category, once created, stays in the registry, and no step
\* changes its system default or its single-instance mode: not
\* category_register on the same name, not set_default, not
\* set_default_by_id, nor any other operation.
C15_FixedAtCreation ==
    [][\A c \in Names :
          Exists(c) =>
              /\ c \in DOMAIN _categories'
              /\ _categories'[c].system_default = _categories[c].system_default
              /\ _categories'[c].is_single = _categories[c].is_single]_vars

C15_Witness ==
    /\ ret.op \in {"set_default", "set_default_by_id"}
    /\ ret.exc = NoExc
    /\ ret.before # None
    /\ _categories[ret.cat].default_id # ret.before.default_id
    /\ _categories[ret.cat].system_default # Category__get_default(_categories[ret.cat]).val

\* C16: set_default with a class that is not registered in the category
\* raises ValueError and changes nothing when the class fails one of the
\* interfaces; when it conforms, the call returns True, the class is
\* registered under its id and that id is the default.
C16_SetDefaultRegisters ==
    [][\A c \in Names, cls \in Classes :
          (/\ Exists(c)
           /\ cls \notin DOMAIN _categories[c].ids
           /\ Host_set_default(c, cls)) =>
              IF Conforms(cls, _categories[c].interfaces)
              THEN /\ ret'.exc = NoExc
                   /\ ret'.val = True
                   /\ cls \in DOMAIN _categories'[c].ids
                   /\ _categories'[c].classes =
                          put(_categories[c].classes, _get_class_name(cls).val, cls)
                   /\ _categories'[c].default_id = _get_class_name(cls).val
                   /\ Category__get_default(_categories'[c]).val = cls
              ELSE /\ ret'.exc = "ValueError"
                   /\ _categories' = _categories
                   /\ heap' = heap]_vars

C16_Witness ==
    /\ ret.op = "set_default"
    /\ ret.exc = "ValueError"
    /\ ret.before # None
    /\ ret.arg \notin DOMAIN _categories[ret.cat].ids
    /\ ~Conforms(ret.arg, _categories[ret.cat].interfaces)
    /\ _categories[ret.cat].default_id = ret.before.default_id

C16_WitnessConforming ==
    /\ ret.op = "set_default"
    /\ ret.exc = NoExc
    /\ ret.before # None
    /\ ret.before.default_id # _get_class_name(ret.arg).val
    /\ _categories[ret.cat].default_id = _get_class_name(ret.arg).val
    /\ Cardinality(DOMAIN _categories[ret.cat].classes) = 2

\* What use() fans out over: the default alone in a single-instance
\* category, the whole table otherwise.
Fanned(cat) ==
    IF cat.is_single
    THEN [k \in {cat.default_id} |-> cat.classes[k]]
    ELSE cat.classes

\* C17: use() followed by a call of attribute attr through the view does
\* not raise and changes nothing; the view it returns holds a result for
\* exactly the ids, among {default_id} in a single-instance category and
\* among the whole table otherwise, whose class has attr and whose call of it
\* did not raise, each result being that of its own class.
C17_UseFansOut ==
    [][\A c \in Names :
          (Exists(c) /\ ret'.op = "use" /\ ret'.cat = c) =>
              LET over == Fanned(_categories[c])
                  attr == ret'.arg.attr
              IN /\ ret'.exc = NoExc
                 /\ DOMAIN ret'.val.objects =
                        {k \in DOMAIN over :
                            attr \in over[k].attrs /\ attr \notin over[k].broken}
                 /\ \A k \in DOMAIN ret'.val.objects :
                        ret'.val.objects[k] =
                            [result_of |-> [attr |-> attr, of |-> over[k]],
                             args |-> ret'.arg.args]
                 /\ _categories' = _categories
                 /\ heap' = heap]_vars

C17_Witness ==
    /\ ret.op = "use"
    /\ ret.exc = NoExc
    /\ _categories[ret.cat].is_single
    /\ Cardinality(DOMAIN _categories[ret.cat].classes) = 2
    /\ DOMAIN ret.val.objects = {_categories[ret.cat].default_id}

C17_WitnessDropped ==
    /\ ret.op = "use"
    /\ ret.exc = NoExc
    /\ ~_categories[ret.cat].is_single
    /\ \E k \in DOMAIN _categories[ret.cat].classes :
           /\ ret.arg.attr \in _categories[ret.cat].classes[k].broken
           /\ k \notin DOMAIN ret.val.objects
    /\ \E k \in DOMAIN _categories[ret.cat].classes :
           /\ ret.arg.attr \notin _categories[ret.cat].classes[k].attrs
           /\ k \notin DOMAIN ret.val.objects

C17_WitnessAll ==
    /\ ret.op = "use"
    /\ ret.exc = NoExc
    /\ ~_categories[ret.cat].is_single
    /\ Cardinality(DOMAIN ret.val.objects) = 2

\* C20: category_register for a name not in the registry, with a system
\* default that fails one of the interfaces, raises ValueError and leaves
\* the registry as it was: no entry for the name, every other category
\* unchanged; and no creation that raises, explicit or through register,
\* leaves anything behind.
C20_CreationAllOrNothing ==
    [][\A c \in Names2 :
          ~Exists(c) =>
              /\ \A sd \in SystemDefaults \ {None}, ifs \in InterfaceArgs,
                    single \in BOOLEAN :
                     (/\ ~Conforms(sd, Normalised(ifs))
                      /\ Host_category_register(c, sd, ifs, single)) =>
                         /\ ret'.exc = "ValueError"
                         /\ c \notin DOMAIN _categories'
                         /\ _categories' = _categories
                         /\ heap' = heap
              /\ (/\ ret'.cat = c
                  /\ ret'.op \in {"category_register", "register"}
                  /\ ret'.exc # NoExc) => _categories' = _categories]_vars

C20_Witness ==
    /\ ret.op = "category_register"
    /\ ret.exc = "ValueError"
    /\ ret.cat \in Names2 \ DOMAIN _categories
    /\ DOMAIN _categories # {}

\* C19: in every reachable state of a single-instance category, the
\* instance get_instance returns, if any, was constructed from the class
\* that default_id designates.
C19_InstanceOfDefault ==
    \A c \in DOMAIN _categories :
        _categories[c].is_single =>
            LET inst == Category_get_instance(_categories[c], heap)
            IN inst # None => inst.cls = Category__get_default(_categories[c]).val

\* The saved instance of single-instance category c is alive and is not an
\* instance of the class default_id designates.
Stale(c) ==
    /\ _categories[c].is_single
    /\ LET inst == Category_get_instance(_categories[c], heap)
       IN /\ inst # None
          /\ inst.cls # Category__get_default(_categories[c]).val

\* C18: with get_and_instantiate and the default setter run a statement at
\* a time, a single-instance category holds a live saved instance of a
\* class that is not its default only when that instance was saved by a
\* get_and_instantiate whose default was changed between its `cls =
\* self.default` and its `self.instance = weakref.ref(inst)`, or while a
\* setter stands between `self.default_id = id` and `self.instance = None`.
C18_StaleOnlyInterleaved ==
    \A c \in DOMAIN _categories :
        Stale(c) =>
            \/ \E t \in Callers :
                  /\ callers[t].pc = "done"
                  /\ callers[t].cat = c
                  /\ callers[t].overtaken
                  /\ callers[t].val = Category_get_instance(_categories[c], heap)
            \/ At(Setter, "instance") /\ callers[Setter].cat = c

\* The setter has returned and the category keeps a live saved instance of
\* the former default, saved by a caller it overtook.
C18_Witness ==
    \E c \in DOMAIN _categories, t \in Callers :
        /\ Stale(c)
        /\ callers[Setter].pc = "done"
        /\ callers[Setter].cat = c
        /\ callers[t].pc = "done"
        /\ callers[t].cat = c
        /\ callers[t].overtaken
        /\ callers[t].val = Category_get_instance(_categories[c], heap)
        /\ callers[t].val.cls # callers[Setter].cls

\* Without any set_default, two interleaved calls on one single-instance
\* category have returned two different instances of a class whose
\* instances are true.
C18_WitnessTwoInstances ==
    /\ callers[Setter].pc = "idle"
    /\ \A t \in Callers : callers[t].pc = "done"
    /\ callers[1].cat = callers[2].cat
    /\ _categories[callers[1].cat].is_single
    /\ callers[1].val # callers[2].val
    /\ callers[1].val.cls.nonzero
    /\ callers[2].val.cls.nonzero

====
